---- MODULE Spec2Model ----
(***************************************************************************)
(* Matchmaking and call-signaling coordinator of src/server.js.            *)
(*                                                                         *)
(* The server is a single-threaded event loop.  A socket.io handler runs   *)
(* atomically up to its first `await`; there it is suspended and any other *)
(* handler may run before it resumes.  Every action below is either the    *)
(* synchronous prefix of a handler (from the arrival of the signal to the  *)
(* first await or to the end) or the continuation of a suspended handler   *)
(* from the return of the awaited collaborator call to the next await or   *)
(* to the end.  A suspended handler is a record of the set `tasks`.        *)
(***************************************************************************)
EXTENDS Integers, Sequences, FiniteSets, TLC

\* ------------------------------------------------------------------ bounds
\* connections, signals and disconnects the clients make over a behaviour of
\* the matchmaking specification
MaxMatchSignals == 5
\* the same for the direct-call specification
MaxCallSignals == 4
\* the same for the ledger specification
MaxLedgerSignals == 6
\* signals received in a behaviour of the teardown specification
MaxTeardownSignals == 5
\* the same for the invite specification
MaxInviteSignals == 4
\* the same for the fair specification
MaxFairSignals == 4
\* the same for the specification of racing teardowns
MaxRaceSignals == 5
\* the same for the clock specification, and the last reading of its clock
MaxClockSignals == 6
MaxClock == 1
\* the same for the payload specification
MaxPayloadSignals == 4

\* ------------------------------------------------------------- value sets
\* socket.handshake.query.userId of a connection that sends none
NoUser == "undefined"
UserIds == {"u1", "u2", "u3"}
Genders == {"M", "F"}
\* values a client may send as genderPreference; "undefined" is a payload
\* object without the field
Prefs == {"Anyone", "M", "F", "undefined"}
\* the signal sent with no payload at all
NoData == [nodata |-> TRUE]
Payloads == {NoData} \cup {[genderPreference |-> p] : p \in Prefs}
\* the preferences that name a gender or "Anyone"
NamedPrefs == {[genderPreference |-> p] : p \in {"Anyone", "M", "F"}}
\* durationInSeconds of end_call; "null" is an absent or null duration
Null == "null"
Durations == {"42", "7"}

\* a socket id is fresh per connection; the pair keeps the userId the
\* connection's closure holds
NoSock == <<NoUser, 0>>
UserOf(s) == s[1]

NoEntry == [id |-> NoSock, userId |-> NoUser, gender |-> "", genderPreference |-> ""]
NoChannel == <<>>

VARIABLES
    waitingUsers,   \* the queue: sequence of {id, userId, gender, genderPreference}
    userSocketMap,  \* the registry: userId -> socket id, a map (partial function)
    activeCalls,    \* the tracker: caller userId -> target userId, a map
    calls,          \* the ledger's `calls` collection, in creation order
    users,          \* the profile store's `users` collection
    open,           \* sockets connected and not yet disconnected
    nconn,          \* connections opened so far per user identity
    now,            \* reading of Date.now()
    sent,           \* connections, signals and disconnects received so far
    tasks,          \* handlers suspended on an await
    out,            \* events emitted by the last step, in order
    last            \* the handler step just taken, with its locals

vars == <<waitingUsers, userSocketMap, activeCalls, calls, users, open, nconn,
          now, sent, tasks, out, last>>

\* --------------------------------------------------------------- JS Map
EmptyMap == [k \in {} |-> NoUser]
MapHas(m, k) == k \in DOMAIN m
MapSetIfAbsent(m, k, v) == [x \in (DOMAIN m) \cup {k} |-> IF x \in DOMAIN m THEN m[x] ELSE v]
MapSet(m, k, v) == [x \in (DOMAIN m) \cup {k} |-> IF x = k THEN v ELSE m[x]]
MapDeleteNothing(m, k) == m
MapDelete(m, k) == [x \in (DOMAIN m) \ {k} |-> m[x]]

\* --------------------------------------------------------------- events
\* io.to(socketId).emit(ev, payload)
Emit(sock, ev, ch, user) ==
    [ev |-> ev, to |-> sock, channelName |-> ch, user |-> user, type |-> ""]
\* admin.messaging().send({token, data: {type, ...}}) for targetUserId
Push(target, type) ==
    [ev |-> "fcm", to |-> NoSock, channelName |-> NoChannel, user |-> target,
     type |-> type]

\* --------------------------------------------------------- handler tasks
\* cid is the callerId of the payload.  prev is history that no handler
\* reads: "cancel_search" when the signal arrived right after a cancel_search
\* on the same connection.
Blank ==
    [h |-> "", s |-> NoSock, pc |-> "", n |-> 0, a |-> NoEntry, m |-> NoEntry,
     ch |-> NoChannel, tgt |-> NoUser, dur |-> Null, doc |-> 0,
     cid |-> NoUser, prev |-> ""]

\* Two suspended handlers may have equal locals; n tells them apart.
Spawn(t) ==
    LET free == {k \in 1..(Cardinality(tasks) + 1) : [t EXCEPT !.n = k] \notin tasks}
    IN  [t EXCEPT !.n = CHOOSE k \in free : \A j \in free : k <= j]

\* ---------------------------------------------------------------- queue
\* a splice that removes nothing
SpliceNothing(q, i) == q

\* waitingUsers.splice(i, 1)
Splice(q, i) == [j \in 1..(Len(q) - 1) |-> IF j < i THEN q[j] ELSE q[j + 1]]

\* a filter that drops the entries of the connection's user
FilterUserId(q, sock) == SelectSeq(q, LAMBDA e : e.userId # UserOf(sock))

\* waitingUsers.filter(user => user.id !== sock)
RECURSIVE FilterId(_, _)
FilterId(q, sock) ==
    IF q = <<>> THEN <<>>
    ELSE IF Head(q).id # sock THEN <<Head(q)>> \o FilterId(Tail(q), sock)
         ELSE FilterId(Tail(q), sock)

\* const genderPreference = data ? data.genderPreference : "Anyone";
GenderPreferenceOf(data) ==
    IF data = NoData THEN "Anyone" ELSE data.genderPreference

\* a check of the requester's preference that accepts nobody
ALikesNobody(userA, userB) == FALSE
\* const aLikesB = ...
ALikesB(userA, userB) ==
    userA.genderPreference = "Anyone" \/ userA.genderPreference = userB.gender
\* a check of the waiting user's preference that accepts everyone
BLikesAnyone(userA, userB) == TRUE
BLikesA(userA, userB) ==
    userB.genderPreference = "Anyone" \/ userB.genderPreference = userA.gender

\* a loop that keeps the last entry both sides accept
RECURSIVE ScanLast(_, _, _)
ScanLast(q, userA, i) ==
    IF i > Len(q) THEN 0
    ELSE LET rest == ScanLast(q, userA, i + 1) IN
         IF rest # 0 THEN rest
         ELSE IF (userA.genderPreference = "Anyone" \/ userA.genderPreference = q[i].gender)
                 /\ (q[i].genderPreference = "Anyone" \/ q[i].genderPreference = userA.gender)
              THEN i ELSE 0

\* the for loop of find_match: index of the first entry both sides accept,
\* 0 when the loop ends with matchIndex = -1
RECURSIVE ScanFrom(_, _, _)
ScanFrom(q, userA, i) ==
    IF i > Len(q) THEN 0
    ELSE IF ALikesB(userA, q[i]) /\ BLikesA(userA, q[i]) THEN i
         ELSE ScanFrom(q, userA, i + 1)
MatchIndex(q, userA) == ScanFrom(q, userA, 1)

\* waitingUsers.some(user => user.userId === userA.userId)
SomeUserId(q, uid) == \E i \in DOMAIN q : q[i].userId = uid

\* a push without the check for an entry of the same user
EnqueueAlways(q, userA) == Append(q, userA)

\* if (!waitingUsers.some(...)) waitingUsers.push(userA)
Enqueue(q, userA) == IF SomeUserId(q, userA.userId) THEN q ELSE Append(q, userA)

\* ---------------------------------------------------------------- Init
InitStores ==
    /\ waitingUsers = <<>>
    /\ userSocketMap = EmptyMap
    /\ activeCalls = EmptyMap
    /\ calls = <<>>
    /\ open = {}
    /\ nconn = [u \in UserIds \cup {NoUser} |-> 0]
    /\ now = 0
    /\ sent = 0
    /\ tasks = {}
    /\ out = <<>>
    /\ last = Blank

\* --------------------------------------------------------------- actions
\* io.on('connection')
Connect(u) ==
    /\ sent' = sent + 1
    /\ LET s == <<u, nconn[u] + 1>> IN
        /\ open' = open \cup {s}
        /\ userSocketMap' = IF u # NoUser THEN MapSet(userSocketMap, u, s)
                            ELSE userSocketMap
        /\ last' = [Blank EXCEPT !.h = "connection", !.s = s, !.pc = "done"]
    /\ nconn' = [nconn EXCEPT ![u] = @ + 1]
    /\ out' = <<>>
    /\ UNCHANGED <<waitingUsers, activeCalls, calls, users, now, tasks>>

\* Date.now() advances
Tick ==
    /\ UNCHANGED sent
    /\ now' = now + 1
    /\ out' = <<>>
    /\ last' = [Blank EXCEPT !.h = "tick", !.pc = "done"]
    /\ UNCHANGED <<waitingUsers, userSocketMap, activeCalls, calls, users, open,
                   nconn, tasks>>

\* a lookup that takes every profile to exist
ProfileAssumed(doc) == TRUE

\* userDoc.exists
ProfileExists(doc) == doc.exists

\* a call record born closed
CallRecordClosed(userA, matchedUser, channelName) ==
    [participants |-> <<userA.userId, matchedUser.userId>>,
     channelName |-> channelName,
     durationInSeconds |-> "0"]

\* the document passed to db.collection('calls').add
CallRecord(userA, matchedUser, channelName) ==
    [participants |-> <<userA.userId, matchedUser.userId>>,
     channelName |-> channelName,
     durationInSeconds |-> Null]

\* socket.on('find_match'): up to the await of the profile lookup
FindMatch(s, data) ==
    /\ sent' = sent + 1
    /\ s \in open
    /\ out' = <<>>
    /\ LET t == [Blank EXCEPT !.h = "find_match", !.s = s,
                     !.prev = IF last.s = s /\ last.h = "cancel_search"
                              THEN last.h ELSE "",
                     !.a = [NoEntry EXCEPT !.id = s, !.userId = UserOf(s),
                              !.genderPreference = GenderPreferenceOf(data)]]
       IN IF UserOf(s) = NoUser
          THEN /\ last' = [t EXCEPT !.pc = "returned"]
               /\ tasks' = tasks
          ELSE /\ last' = Spawn([t EXCEPT !.pc = "users_get"])
               /\ tasks' = tasks \cup {last'}
    /\ UNCHANGED <<waitingUsers, userSocketMap, activeCalls, calls, users, open,
                   nconn, now>>

\* find_match resumes with the profile: scan, then splice or push
FindMatchScan(t, ok) ==
    /\ UNCHANGED sent
    /\ t \in tasks /\ t.h = "find_match" /\ t.pc = "users_get"
    /\ out' = <<>>
    /\ LET doc == users[t.a.userId]
           userA == [t.a EXCEPT !.gender = doc.gender]
           matchIndex == MatchIndex(waitingUsers, userA)
       IN IF ~ok
          THEN /\ last' = [t EXCEPT !.pc = "caught"]
               /\ tasks' = tasks \ {t}
               /\ waitingUsers' = waitingUsers
          ELSE IF ~ProfileExists(doc)
          THEN /\ last' = [t EXCEPT !.pc = "returned"]
               /\ tasks' = tasks \ {t}
               /\ waitingUsers' = waitingUsers
          ELSE IF matchIndex # 0
          THEN /\ waitingUsers' = Splice(waitingUsers, matchIndex)
               /\ last' = Spawn([t EXCEPT !.pc = "calls_add", !.a = userA,
                                          !.m = waitingUsers[matchIndex],
                                          !.ch = <<"channel_", now>>])
               /\ tasks' = (tasks \ {t}) \cup {last'}
          ELSE /\ waitingUsers' = Enqueue(waitingUsers, userA)
               /\ last' = [t EXCEPT !.pc = "done", !.a = userA]
               /\ tasks' = tasks \ {t}
    /\ UNCHANGED <<userSocketMap, activeCalls, calls, users, open, nconn, now>>

\* find_match resumes from db.collection('calls').add
FindMatchAdded(t, ok) ==
    /\ UNCHANGED sent
    /\ t \in tasks /\ t.h = "find_match" /\ t.pc = "calls_add"
    /\ tasks' = tasks \ {t}
    /\ IF ok
       THEN /\ calls' = Append(calls, CallRecord(t.a, t.m, t.ch))
            /\ out' = << Emit(t.a.id, "match_found", t.ch, t.m.userId),
                         Emit(t.m.id, "match_found", t.ch, t.a.userId) >>
            /\ last' = [t EXCEPT !.pc = "done"]
       ELSE /\ calls' = calls
            /\ out' = <<>>
            /\ last' = [t EXCEPT !.pc = "caught"]
    /\ UNCHANGED <<waitingUsers, userSocketMap, activeCalls, users, open, nconn, now>>

\* a cancel_search that also drops the invite of the connection's user
CancelSearchClears(s) ==
    /\ sent' = sent + 1
    /\ s \in open
    /\ waitingUsers' = FilterId(waitingUsers, s)
    /\ activeCalls' = MapDelete(activeCalls, UserOf(s))
    /\ out' = <<>>
    /\ last' = [Blank EXCEPT !.h = "cancel_search", !.s = s, !.pc = "done"]
    /\ UNCHANGED <<userSocketMap, calls, users, open, nconn, now, tasks>>

\* socket.on('cancel_search')
CancelSearch(s) ==
    /\ sent' = sent + 1
    /\ s \in open
    /\ waitingUsers' = FilterId(waitingUsers, s)
    /\ out' = <<>>
    /\ last' = [Blank EXCEPT !.h = "cancel_search", !.s = s, !.pc = "done"]
    /\ UNCHANGED <<userSocketMap, activeCalls, calls, users, open, nconn, now, tasks>>

\* --------------------------------------------------- push (sendFcmMessage)
\* every push typed as a cancellation
FcmTypeCancel(h) == "cancel_call"

\* data.type of the push a handler sends
FcmType(h) == IF h = "send_call_invite" THEN "call" ELSE "cancel_call"

\* a teardown that leaves the invite in the tracker
KeepInvite(m, userId) == m

\* activeCalls.delete(userId) at the end of a teardown
ClearInvite(m, userId) == MapDelete(m, userId)

\* userSocketMap.delete(userId) at the end of the disconnect handler
Unbind(reg, userId, sock) == MapDelete(reg, userId)

\* The rest of a handler after `await sendFcmMessage(...)` returns; the
\* function catches its own errors, so the handler continues in every case.
AfterFcm(t, pushed) ==
    LET userId == UserOf(t.s) IN
    CASE t.h = "end_call" ->
            /\ out' = pushed \o (IF MapHas(userSocketMap, t.tgt)
                                 THEN <<Emit(userSocketMap[t.tgt], "call_ended", NoChannel, NoUser)>>
                                 ELSE <<>>)
            /\ activeCalls' = ClearInvite(activeCalls, userId)
            /\ userSocketMap' = userSocketMap
            /\ IF userId # NoUser /\ t.dur # Null
               THEN /\ last' = [t EXCEPT !.pc = "calls_query"]
                    /\ tasks' = (tasks \ {t}) \cup {last'}
               ELSE /\ last' = [t EXCEPT !.pc = "done"]
                    /\ tasks' = tasks \ {t}
      [] t.h = "disconnect" ->
            /\ out' = pushed
            /\ activeCalls' = ClearInvite(activeCalls, userId)
            /\ userSocketMap' = IF userId # NoUser
                                THEN Unbind(userSocketMap, userId, t.s)
                                ELSE userSocketMap
            /\ last' = [t EXCEPT !.pc = "done"]
            /\ tasks' = tasks \ {t}
      [] OTHER ->
            /\ out' = pushed
            /\ UNCHANGED <<activeCalls, userSocketMap>>
            /\ last' = [t EXCEPT !.pc = "done"]
            /\ tasks' = tasks \ {t}

\* a profile lookup whose failure ends the calling handler
FcmGetAborts(t, ok) ==
    /\ UNCHANGED sent
    /\ t \in tasks /\ t.pc = "fcm_get"
    /\ LET userDoc == users[t.tgt] IN
       IF ~ok
       THEN /\ out' = <<>>
            /\ last' = [t EXCEPT !.pc = "caught"]
            /\ tasks' = tasks \ {t}
            /\ UNCHANGED <<activeCalls, userSocketMap>>
       ELSE IF userDoc.exists /\ userDoc.fcmToken
       THEN /\ out' = <<Push(t.tgt, FcmType(t.h))>>
            /\ last' = [t EXCEPT !.pc = "fcm_send"]
            /\ tasks' = (tasks \ {t}) \cup {last'}
            /\ UNCHANGED <<activeCalls, userSocketMap>>
       ELSE AfterFcm(t, <<>>)
    /\ UNCHANGED <<waitingUsers, calls, users, open, nconn, now>>

\* sendFcmMessage resumes from the profile lookup of the target
FcmGet(t, ok) ==
    /\ UNCHANGED sent
    /\ t \in tasks /\ t.pc = "fcm_get"
    /\ LET userDoc == users[t.tgt] IN
       IF ok /\ userDoc.exists /\ userDoc.fcmToken
       THEN \* admin.messaging().send(message) is called and awaited
            /\ out' = <<Push(t.tgt, FcmType(t.h))>>
            /\ last' = [t EXCEPT !.pc = "fcm_send"]
            /\ tasks' = (tasks \ {t}) \cup {last'}
            /\ UNCHANGED <<activeCalls, userSocketMap>>
       ELSE AfterFcm(t, <<>>)
    /\ UNCHANGED <<waitingUsers, calls, users, open, nconn, now>>

\* a push send that never returns
FcmSendStuck(t) ==
    /\ t \in tasks /\ t.pc = "fcm_send"
    /\ UNCHANGED vars

\* sendFcmMessage resumes from admin.messaging().send, delivered or failed
FcmSend(t) ==
    /\ UNCHANGED sent
    /\ t \in tasks /\ t.pc = "fcm_send"
    /\ AfterFcm(t, <<>>)
    /\ UNCHANGED <<waitingUsers, calls, users, open, nconn, now>>

\* ---------------------------------------------------- direct-call signals
\* socket.on('send_call_invite')
SendCallInvite(s, targetUserId, callerId) ==
    /\ sent' = sent + 1
    /\ s \in open
    /\ activeCalls' = MapSet(activeCalls, callerId, targetUserId)
    /\ out' = IF MapHas(userSocketMap, targetUserId)
              THEN <<Emit(userSocketMap[targetUserId], "incoming_call", NoChannel, callerId)>>
              ELSE <<>>
    /\ last' = Spawn([Blank EXCEPT !.h = "send_call_invite", !.s = s,
                                   !.pc = "fcm_get", !.tgt = targetUserId,
                                   !.cid = callerId])
    /\ tasks' = tasks \cup {last'}
    /\ UNCHANGED <<waitingUsers, userSocketMap, calls, users, open, nconn, now>>

\* socket.on('decline_call')
DeclineCall(s, callerId) ==
    /\ sent' = sent + 1
    /\ s \in open
    /\ activeCalls' = MapDelete(activeCalls, callerId)
    /\ out' = IF MapHas(userSocketMap, callerId)
              THEN <<Emit(userSocketMap[callerId], "call_rejected", NoChannel, NoUser)>>
              ELSE <<>>
    /\ last' = [Blank EXCEPT !.h = "decline_call", !.s = s, !.pc = "done",
                             !.tgt = callerId, !.cid = callerId]
    /\ UNCHANGED <<waitingUsers, userSocketMap, calls, users, open, nconn, now, tasks>>

\* socket.on('cancel_call')
CancelCall(s, targetUserId) ==
    /\ sent' = sent + 1
    /\ s \in open
    /\ activeCalls' = MapDelete(activeCalls, UserOf(s))
    /\ out' = IF MapHas(userSocketMap, targetUserId)
              THEN <<Emit(userSocketMap[targetUserId], "call_ended", NoChannel, NoUser)>>
              ELSE <<>>
    /\ last' = Spawn([Blank EXCEPT !.h = "cancel_call", !.s = s,
                                   !.pc = "fcm_get", !.tgt = targetUserId])
    /\ tasks' = tasks \cup {last'}
    /\ UNCHANGED <<waitingUsers, userSocketMap, calls, users, open, nconn, now>>

\* socket.on('end_call'): up to the first await
EndCall(s, durationInSeconds) ==
    /\ sent' = sent + 1
    /\ s \in open
    /\ out' = <<>>
    /\ LET userId == UserOf(s)
           t == [Blank EXCEPT !.h = "end_call", !.s = s, !.dur = durationInSeconds]
       IN IF MapHas(activeCalls, userId)
          THEN /\ last' = Spawn([t EXCEPT !.pc = "fcm_get", !.tgt = activeCalls[userId]])
               /\ tasks' = tasks \cup {last'}
          ELSE IF userId # NoUser /\ durationInSeconds # Null
          THEN /\ last' = Spawn([t EXCEPT !.pc = "calls_query"])
               /\ tasks' = tasks \cup {last'}
          ELSE /\ last' = [t EXCEPT !.pc = "done"]
               /\ tasks' = tasks
    /\ UNCHANGED <<waitingUsers, userSocketMap, activeCalls, calls, users, open,
                   nconn, now>>

\* where participants array-contains userId, durationInSeconds == null,
\* orderBy createdAt desc, limit 1: index of the document, 0 when empty
OpenCallOf(cs, userId) ==
    LET hits == {i \in DOMAIN cs :
                    /\ \E k \in DOMAIN cs[i].participants : cs[i].participants[k] = userId
                    /\ cs[i].durationInSeconds = Null}
    IN IF hits = {} THEN 0 ELSE CHOOSE i \in hits : \A j \in hits : j <= i

\* end_call resumes from the ledger query
EndCallQueried(t, ok) ==
    /\ UNCHANGED sent
    /\ t \in tasks /\ t.h = "end_call" /\ t.pc = "calls_query"
    /\ out' = <<>>
    /\ LET doc == OpenCallOf(calls, UserOf(t.s)) IN
       IF ~ok
       THEN /\ last' = [t EXCEPT !.pc = "caught"]
            /\ tasks' = tasks \ {t}
       ELSE IF doc = 0
       THEN /\ last' = [t EXCEPT !.pc = "done"]
            /\ tasks' = tasks \ {t}
       ELSE /\ last' = Spawn([t EXCEPT !.pc = "calls_update", !.doc = doc])
            /\ tasks' = (tasks \ {t}) \cup {last'}
    /\ UNCHANGED <<waitingUsers, userSocketMap, activeCalls, calls, users, open,
                   nconn, now>>

\* callDoc.ref.update({ durationInSeconds })
UpdateDuration(cs, doc, durationInSeconds) ==
    [cs EXCEPT ![doc].durationInSeconds = durationInSeconds]

\* end_call resumes from the ledger update
EndCallUpdated(t, ok) ==
    /\ UNCHANGED sent
    /\ t \in tasks /\ t.h = "end_call" /\ t.pc = "calls_update"
    /\ out' = <<>>
    /\ tasks' = tasks \ {t}
    /\ IF ok
       THEN /\ calls' = UpdateDuration(calls, t.doc, t.dur)
            /\ last' = [t EXCEPT !.pc = "done"]
       ELSE /\ calls' = calls
            /\ last' = [t EXCEPT !.pc = "caught"]
    /\ UNCHANGED <<waitingUsers, userSocketMap, activeCalls, users, open, nconn, now>>

\* socket.on('disconnect'): up to the await of the push, or to the end
Disconnect(s) ==
    /\ sent' = sent + 1
    /\ s \in open
    /\ open' = open \ {s}
    /\ waitingUsers' = FilterId(waitingUsers, s)
    /\ LET userId == UserOf(s)
           t == [Blank EXCEPT !.h = "disconnect", !.s = s]
       IN IF userId # NoUser /\ MapHas(activeCalls, userId)
          THEN /\ out' = IF MapHas(userSocketMap, activeCalls[userId])
                         THEN <<Emit(userSocketMap[activeCalls[userId]], "call_ended",
                                     NoChannel, NoUser)>>
                         ELSE <<>>
               /\ last' = Spawn([t EXCEPT !.pc = "fcm_get", !.tgt = activeCalls[userId]])
               /\ tasks' = tasks \cup {last'}
               /\ userSocketMap' = userSocketMap
          ELSE /\ out' = <<>>
               /\ last' = [t EXCEPT !.pc = "done"]
               /\ tasks' = tasks
               /\ userSocketMap' = IF userId # NoUser
                                   THEN Unbind(userSocketMap, userId, s)
                                   ELSE userSocketMap
    /\ UNCHANGED <<activeCalls, calls, users, nconn, now>>

\* ------------------------------------------------------- specifications
\* The profile store is external and fixed over a behaviour.  Users are
\* interchangeable and so are the two genders, so two stores stand for the
\* rest: two users of one gender and one of the other, and a store in which
\* one user has no profile.
Profile(g) == [exists |-> TRUE, gender |-> g, fcmToken |-> FALSE]
Absent == [exists |-> FALSE, gender |-> "", fcmToken |-> FALSE]
MatchStores ==
    { [u \in UserIds |-> IF u = "u3" THEN Profile("F") ELSE Profile("M")],
      [u \in UserIds |-> IF u = "u3" THEN Absent
                         ELSE IF u = "u2" THEN Profile("F") ELSE Profile("M")] }

\* Matchmaking: the clients connect, send find_match and cancel_search, and
\* disconnect.
InitMatch ==
    /\ InitStores
    /\ users \in MatchStores

NextMatch ==
    \/ \E u \in UserIds : sent < MaxMatchSignals /\ Connect(u)
    \/ \E s \in open, data \in NamedPrefs : sent < MaxMatchSignals /\ FindMatch(s, data)
    \/ \E s \in open : sent < MaxMatchSignals /\ CancelSearch(s)
    \/ \E s \in open : sent < MaxMatchSignals /\ Disconnect(s)
    \/ \E t \in tasks, ok \in BOOLEAN : FindMatchScan(t, ok)
    \/ \E t \in tasks, ok \in BOOLEAN : FindMatchAdded(t, ok)

SpecMatch == InitMatch /\ [][NextMatch]_vars

\* Direct calls: the clients connect, send the direct-call signals,
\* end_call and cancel_search, and disconnect.  u1 has a push token, u2 has
\* a profile without one, u3 has no profile.
CallStore ==
    [u \in UserIds |-> IF u = "u1" THEN [Profile("M") EXCEPT !.fcmToken = TRUE]
                       ELSE IF u = "u2" THEN Profile("F") ELSE Absent]

InitCall ==
    /\ InitStores
    /\ users = CallStore

NextCall ==
    \/ \E u \in UserIds : sent < MaxCallSignals /\ Connect(u)
    \/ \E s \in open, targetUserId \in UserIds, callerId \in UserIds :
          sent < MaxCallSignals /\ SendCallInvite(s, targetUserId, callerId)
    \/ \E s \in open, callerId \in UserIds :
          sent < MaxCallSignals /\ DeclineCall(s, callerId)
    \/ \E s \in open, targetUserId \in UserIds :
          sent < MaxCallSignals /\ CancelCall(s, targetUserId)
    \/ \E s \in open, d \in {Null, "42"} : sent < MaxCallSignals /\ EndCall(s, d)
    \/ \E s \in open : sent < MaxCallSignals /\ CancelSearch(s)
    \/ \E s \in open : sent < MaxCallSignals /\ Disconnect(s)
    \/ \E t \in tasks, ok \in BOOLEAN : FcmGet(t, ok)
    \/ \E t \in tasks : FcmSend(t)
    \/ \E t \in tasks, ok \in BOOLEAN : EndCallQueried(t, ok)

SpecCall == InitCall /\ [][NextCall]_vars

\* The ledger: two users of different genders connect, each asks for the
\* other gender, they are matched and end their calls.
LedgerUsers == {"u1", "u2"}
LedgerStore == [u \in UserIds |-> IF u = "u1" THEN Profile("M") ELSE Profile("F")]
OtherGender(u) == IF LedgerStore[u].gender = "M" THEN "F" ELSE "M"

InitLedger ==
    /\ InitStores
    /\ users = LedgerStore

NextLedger ==
    \/ \E u \in LedgerUsers : sent < MaxLedgerSignals /\ Connect(u)
    \/ \E s \in open :
          /\ sent < MaxLedgerSignals
          /\ FindMatch(s, [genderPreference |-> OtherGender(UserOf(s))])
    \/ \E s \in open, d \in Durations \cup {Null} :
          sent < MaxLedgerSignals /\ EndCall(s, d)
    \/ \E t \in tasks, ok \in BOOLEAN : FindMatchScan(t, ok)
    \/ \E t \in tasks, ok \in BOOLEAN : FindMatchAdded(t, ok)
    \/ \E t \in tasks, ok \in BOOLEAN : EndCallQueried(t, ok)
    \/ \E t \in tasks, ok \in BOOLEAN : EndCallUpdated(t, ok)

SpecLedger == InitLedger /\ [][NextLedger]_vars

\* Matching, invites and teardown together: the clients send their own userId
\* as callerId and no find_match payload; connections may lack a userId.
TeardownUsers == {"u1", "u3", NoUser}

InitTeardown ==
    /\ InitStores
    /\ users = CallStore

NextTeardown ==
    \/ \E u \in TeardownUsers : sent < MaxTeardownSignals /\ Connect(u)
    \/ \E s \in open : sent < MaxTeardownSignals /\ FindMatch(s, NoData)
    \/ \E s \in open :
          /\ sent < MaxTeardownSignals /\ UserOf(s) # NoUser
          /\ SendCallInvite(s, "u1", UserOf(s))
    \/ \E s \in open : sent < MaxTeardownSignals /\ CancelSearch(s)
    \/ \E s \in open : sent < MaxTeardownSignals /\ Disconnect(s)
    \/ \E t \in tasks, ok \in BOOLEAN : FindMatchScan(t, ok)
    \/ \E t \in tasks, ok \in BOOLEAN : FindMatchAdded(t, ok)
    \/ \E t \in tasks, ok \in BOOLEAN : FcmGet(t, ok)
    \/ \E t \in tasks : FcmSend(t)

SpecTeardown == InitTeardown /\ [][NextTeardown]_vars

\* Every signal, sent by two users whose clients send their own userId as
\* callerId, no find_match payload and no duration.
InviteUsers == {"u1", "u2"}

InitInvite ==
    /\ InitStores
    /\ users = CallStore

NextInvite ==
    \/ \E u \in InviteUsers : sent < MaxInviteSignals /\ Connect(u)
    \/ \E s \in open, targetUserId \in InviteUsers :
          sent < MaxInviteSignals /\ SendCallInvite(s, targetUserId, UserOf(s))
    \/ \E s \in open, callerId \in InviteUsers :
          sent < MaxInviteSignals /\ DeclineCall(s, callerId)
    \/ \E s \in open, targetUserId \in InviteUsers :
          sent < MaxInviteSignals /\ CancelCall(s, targetUserId)
    \/ \E s \in open : sent < MaxInviteSignals /\ EndCall(s, Null)
    \/ \E s \in open : sent < MaxInviteSignals /\ FindMatch(s, NoData)
    \/ \E s \in open : sent < MaxInviteSignals /\ CancelSearch(s)
    \/ \E s \in open : sent < MaxInviteSignals /\ Disconnect(s)
    \/ \E t \in tasks, ok \in BOOLEAN : FcmGet(t, ok)
    \/ \E t \in tasks : FcmSend(t)
    \/ \E t \in tasks, ok \in BOOLEAN : FindMatchScan(t, ok)
    \/ \E t \in tasks, ok \in BOOLEAN : FindMatchAdded(t, ok)

SpecInvite == InitInvite /\ [][NextInvite]_vars

\* Matching, invites and teardown with every awaited collaborator call
\* returning or failing in the end: each continuation is weakly fair.  The
\* clients are under no obligation to send anything.
NextFair ==
    \/ \E u \in TeardownUsers : sent < MaxFairSignals /\ Connect(u)
    \/ \E s \in open : sent < MaxFairSignals /\ FindMatch(s, NoData)
    \/ \E s \in open :
          /\ sent < MaxFairSignals /\ UserOf(s) # NoUser
          /\ SendCallInvite(s, "u1", UserOf(s))
    \/ \E s \in open : sent < MaxFairSignals /\ EndCall(s, Null)
    \/ \E s \in open : sent < MaxFairSignals /\ Disconnect(s)
    \/ \E t \in tasks, ok \in BOOLEAN : FindMatchScan(t, ok)
    \/ \E t \in tasks, ok \in BOOLEAN : FindMatchAdded(t, ok)
    \/ \E t \in tasks, ok \in BOOLEAN : FcmGet(t, ok)
    \/ \E t \in tasks : FcmSend(t)

SpecFair ==
    /\ InitTeardown
    /\ [][NextFair]_vars
    /\ WF_vars(\E t \in tasks, ok \in BOOLEAN : FindMatchScan(t, ok))
    /\ WF_vars(\E t \in tasks, ok \in BOOLEAN : FindMatchAdded(t, ok))
    /\ WF_vars(\E t \in tasks, ok \in BOOLEAN : FcmGet(t, ok))
    /\ WF_vars(\E t \in tasks : FcmSend(t))

\* The teardowns of one invite racing each other: callers invite u1 and end,
\* cancel or disconnect.
NextRace ==
    \/ \E u \in InviteUsers : sent < MaxRaceSignals /\ Connect(u)
    \/ \E s \in open : sent < MaxRaceSignals /\ SendCallInvite(s, "u1", UserOf(s))
    \/ \E s \in open : sent < MaxRaceSignals /\ CancelCall(s, "u1")
    \/ \E s \in open : sent < MaxRaceSignals /\ EndCall(s, Null)
    \/ \E s \in open : sent < MaxRaceSignals /\ Disconnect(s)
    \/ \E t \in tasks, ok \in BOOLEAN : FcmGet(t, ok)
    \/ \E t \in tasks : FcmSend(t)

SpecRace == InitInvite /\ [][NextRace]_vars

\* Matches made while the clock stands still or advances: two users who ask
\* for each other's gender, and Date.now() ticking between any two steps.
NextClock ==
    \/ \E u \in LedgerUsers : sent < MaxClockSignals /\ Connect(u)
    \/ \E s \in open :
          /\ sent < MaxClockSignals
          /\ FindMatch(s, [genderPreference |-> OtherGender(UserOf(s))])
    \/ now < MaxClock /\ Tick
    \/ \E t \in tasks, ok \in BOOLEAN : FindMatchScan(t, ok)
    \/ \E t \in tasks, ok \in BOOLEAN : FindMatchAdded(t, ok)

SpecClock == InitLedger /\ [][NextClock]_vars

\* Every shape of the find_match payload: none, an object without the
\* field, and each preference.
NextPayload ==
    \/ \E u \in LedgerUsers : sent < MaxPayloadSignals /\ Connect(u)
    \/ \E s \in open, data \in Payloads :
          sent < MaxPayloadSignals /\ FindMatch(s, data)
    \/ \E t \in tasks, ok \in BOOLEAN : FindMatchScan(t, ok)
    \/ \E t \in tasks, ok \in BOOLEAN : FindMatchAdded(t, ok)

SpecPayload == InitLedger /\ [][NextPayload]_vars

\* ----------------------------------------------------------------- claims
\* the step just taken is the step of find_match that found a match
Matched(l) == l.h = "find_match" /\ l.pc = "calls_add"
\* the step just taken ended find_match in the branch without a match
Unmatched(l) == l.h = "find_match" /\ l.pc = "done" /\ l.m = NoEntry
\* the queue positions that hold an entry of userId uid
EntriesOf(q, uid) == {i \in DOMAIN q : q[i].userId = uid}
\* the reciprocal-preference relation as the specification words it
Reciprocal(A, B) ==
    /\ A.genderPreference \in {"Anyone", B.gender}
    /\ B.genderPreference \in {"Anyone", A.gender}
IsEmitted(e) == \E i \in DOMAIN out : out[i] = e

\* C1: a disconnect of connection c removes the binding of its user U if and
\* only if U is bound to c; otherwise the registry is unchanged (a stale
\* disconnect does not evict the binding of a newer connection).
C1_CompareAndDelete ==
    [][ (last'.h = "disconnect" /\ last'.pc = "done" /\ UserOf(last'.s) # NoUser)
        => LET U == UserOf(last'.s) IN
           IF MapHas(userSocketMap, U) /\ userSocketMap[U] = last'.s
           THEN ~MapHas(userSocketMap', U)
           ELSE userSocketMap' = userSocketMap ]_vars

\* C2: when the ledger write of a match of a requester with a waiting peer
\* (another user) fails, match_found is still emitted to the requester's
\* connection and to the matched peer's connection.
C2_MatchFoundDespiteLedgerFailure ==
    (/\ last.h = "find_match" /\ last.pc = "caught" /\ last.m # NoEntry
     /\ last.m.userId # last.a.userId)
    => /\ IsEmitted(Emit(last.a.id, "match_found", last.ch, last.m.userId))
       /\ IsEmitted(Emit(last.m.id, "match_found", last.ch, last.a.userId))

\* C3: from the step of find_match that matches requester A with waiting
\* peer B up to the end of that handler, the queue holds no entry of A's
\* userId and none of B's userId.
C3_NoMatchedUserRemains ==
    (last.h = "find_match" /\ last.m # NoEntry)
    => /\ EntriesOf(waitingUsers, last.a.userId) = {}
       /\ EntriesOf(waitingUsers, last.m.userId) = {}

C5_OneEntryPerUser ==
    \A i, j \in DOMAIN waitingUsers :
        waitingUsers[i].userId = waitingUsers[j].userId => i = j

\* C5 witness: a find_match of a user ended unmatched while another
\* find_match of the same user is still suspended on the profile lookup.
C5_Witness ==
    /\ Unmatched(last)
    /\ EntriesOf(waitingUsers, last.a.userId) # {}
    /\ \E t \in tasks : /\ t.h = "find_match" /\ t.pc = "users_get"
                        /\ t.a.userId = last.a.userId

\* C6: the step of find_match that matches an entry takes that entry out of
\* the queue in the same step, so that no other requester can be matched
\* with it: the entry was in the queue before the step and is in no
\* position of the queue after it.
C6_MatchRemovesEntryAtOnce ==
    [][ Matched(last')
        => /\ \E i \in DOMAIN waitingUsers :
                /\ waitingUsers[i] = last'.m
                /\ Len(waitingUsers') = Len(waitingUsers) - 1
                /\ \A j \in DOMAIN waitingUsers' :
                      waitingUsers'[j] = waitingUsers[IF j < i THEN j ELSE j + 1]
           /\ \A j \in DOMAIN waitingUsers' : waitingUsers'[j] # last'.m ]_vars

\* C6 witness: an entry has just been matched while another find_match that
\* the same entry would also accept is suspended on its profile lookup.
C6_Witness ==
    /\ Matched(last)
    /\ \E t \in tasks :
          /\ t.h = "find_match" /\ t.pc = "users_get"
          /\ users[t.a.userId].exists
          /\ Reciprocal([t.a EXCEPT !.gender = users[t.a.userId].gender], last.m)

\* C7: the entry a requester is matched with is the reciprocally compatible
\* entry at the lowest queue index.
C7_OldestCompatibleFirst ==
    [][ Matched(last')
        => \E i \in DOMAIN waitingUsers :
              /\ waitingUsers[i] = last'.m
              /\ \A j \in 1..(i - 1) : ~Reciprocal(last'.a, waitingUsers[j]) ]_vars

\* C7 witness: a match was made and the queue still holds another entry that
\* is reciprocally compatible with the requester.
C7_Witness ==
    /\ Matched(last)
    /\ \E j \in DOMAIN waitingUsers : Reciprocal(last.a, waitingUsers[j])

\* C8: every pairing is reciprocal, and a requester is enqueued instead of
\* matched only when no waiting entry is reciprocally compatible with it.
C8_PairingsReciprocal ==
    [][ /\ Matched(last') => Reciprocal(last'.a, last'.m)
        /\ Unmatched(last')
           => \A j \in DOMAIN waitingUsers : ~Reciprocal(last'.a, waitingUsers[j]) ]_vars

\* C8 witness: a requester was appended behind a waiting entry of another
\* user that it is not reciprocally compatible with.
C8_Witness ==
    /\ Unmatched(last)
    /\ Len(waitingUsers) >= 2
    /\ waitingUsers[Len(waitingUsers)] = last.a

\* C9: when a caller with an outstanding invite to T disconnects, call_ended
\* is emitted to T's live connection if T is bound, a cancel_call push goes
\* to T's token, and the invite is cleared when the handler ends; and a
\* signal received while its sender has no tracked invite (end_call,
\* disconnect, cancel_search, find_match, decline_call, a connection) never
\* emits call_ended: it is emitted only by cancel_call and by an end_call or
\* disconnect that read a tracked invite of its sender, to that invite's
\* target.
C9_Step ==
    LET U == UserOf(last'.s)
        ended == {i \in DOMAIN out' : out'[i].ev = "call_ended"}
    IN
    \* the disconnect of a caller with an outstanding invite
    /\ (last'.h = "disconnect" /\ sent' # sent /\ MapHas(activeCalls, U))
       => /\ last'.pc = "fcm_get" /\ last'.tgt = activeCalls[U]
          /\ out' = IF MapHas(userSocketMap, activeCalls[U])
                    THEN <<Emit(userSocketMap[activeCalls[U]], "call_ended",
                                NoChannel, NoUser)>>
                    ELSE <<>>
    /\ (last'.h = "disconnect" /\ last'.pc = "fcm_send")
       => out' = <<Push(last'.tgt, "cancel_call")>>
    /\ (last'.h = "disconnect" /\ last'.pc = "done") => ~MapHas(activeCalls', U)
    \* the signals that start while their sender has no tracked invite
    /\ (sent' # sent /\ last'.h # "cancel_call" /\ ~MapHas(activeCalls, U))
       => /\ ended = {}
          /\ last'.h \in {"end_call", "disconnect"} => last'.tgt = NoUser
    /\ (ended # {} /\ last'.h # "cancel_call")
       => /\ last'.h \in {"end_call", "disconnect"}
          /\ last'.tgt # NoUser
          /\ \A i \in ended : /\ MapHas(userSocketMap, last'.tgt)
                              /\ out'[i].to = userSocketMap[last'.tgt]

C10_DurationWrittenOnce ==
    [][ \A i \in DOMAIN calls :
           calls[i].durationInSeconds # Null
           => calls'[i].durationInSeconds = calls[i].durationInSeconds ]_vars

\* the most recently created call record that has U as a participant and a
\* null duration, 0 when there is none
MostRecentOpen(cs, U) ==
    LET open_ == {i \in DOMAIN cs :
                     /\ cs[i].durationInSeconds = Null
                     /\ U \in {cs[i].participants[k] : k \in DOMAIN cs[i].participants}}
    IN IF open_ = {} THEN 0 ELSE CHOOSE i \in open_ : \A j \in open_ : j <= i

\* C11: an end_call of user U that carries a duration d writes d on exactly
\* the most recently created call record that has U as a participant and a
\* null duration, and leaves every other record as it was; when there is no
\* such record the ledger is unchanged, and no other step of an end_call
\* changes the ledger.
C11_Step ==
    LET U == UserOf(last'.s)
        i == MostRecentOpen(calls, U)
    IN last'.h = "end_call" =>
         IF last'.pc = "done" /\ last'.doc # 0 /\ i # 0
         THEN calls' = [calls EXCEPT ![i].durationInSeconds = last'.dur]
         ELSE calls' = calls

C11_EndCallWritesMostRecentOpen == [][C11_Step]_vars

\* the tracker m2 is the tracker m with the invite k -> v recorded
Recorded(m, m2, k, v) ==
    /\ MapHas(m2, k) /\ m2[k] = v
    /\ \A x \in UserIds \cup {NoUser} :
          x # k => /\ MapHas(m2, x) <=> MapHas(m, x)
                   /\ MapHas(m, x) => m2[x] = m[x]

\* C12: send_call_invite records the invite callerId -> targetUserId, emits
\* incoming_call on the target's live connection exactly when the target is
\* bound in the registry, and starts the push; when the lookup of the target's
\* profile returns a profile with a push token, a push typed 'call' is sent
\* to the target, bound or not, and no push is sent for a target without one.
C12_Step ==
    /\ (last'.h = "send_call_invite" /\ sent' # sent)
       => /\ Recorded(activeCalls, activeCalls', last'.cid, last'.tgt)
          /\ out' = IF MapHas(userSocketMap, last'.tgt)
                    THEN <<Emit(userSocketMap[last'.tgt], "incoming_call",
                                NoChannel, last'.cid)>>
                    ELSE <<>>
          /\ last'.pc = "fcm_get" /\ last' \in tasks'
    /\ \A t \in tasks :
          (/\ t.h = "send_call_invite" /\ t.pc = "fcm_get"
           /\ users[t.tgt].exists /\ users[t.tgt].fcmToken
           /\ FcmGet(t, TRUE))
          => out' = <<Push(t.tgt, "call")>>
    /\ (last'.h = "send_call_invite" /\ sent' = sent /\ out' # <<>>)
       => /\ out' = <<Push(last'.tgt, "call")>>
          /\ users[last'.tgt].exists /\ users[last'.tgt].fcmToken

C12_InviteRecordedAndAnnounced == [][C12_Step]_vars

\* C12 witness: the push typed 'call' has been sent for an invite whose
\* target is not bound in the registry, and the invite is in the tracker.
C12_Witness ==
    /\ last.h = "send_call_invite" /\ last.pc = "fcm_send"
    /\ out = <<Push(last.tgt, "call")>>
    /\ ~MapHas(userSocketMap, last.tgt)
    /\ MapHas(activeCalls, last.cid) /\ activeCalls[last.cid] = last.tgt

\* the tracker m2 is the tracker m without the invite keyed by k
Removed(m, m2, k) ==
    /\ ~MapHas(m2, k)
    /\ \A x \in UserIds \cup {NoUser} :
          x # k => /\ MapHas(m2, x) <=> MapHas(m, x)
                   /\ MapHas(m, x) => m2[x] = m[x]

\* C13: decline_call with a callerId removes the invite recorded under that
\* callerId and no other, emits exactly one call_rejected to the caller's
\* live connection when the caller is bound in the registry and nothing
\* when not, and starts no push.
C13_Step ==
    last'.h = "decline_call"
    => /\ Removed(activeCalls, activeCalls', last'.cid)
       /\ out' = IF MapHas(userSocketMap, last'.cid)
                 THEN <<Emit(userSocketMap[last'.cid], "call_rejected",
                             NoChannel, NoUser)>>
                 ELSE <<>>
       /\ tasks' = tasks /\ last'.pc = "done"

C13_DeclineRemovesAndRejects == [][C13_Step]_vars

\* C13 witness: a decline has removed the invite of a send_call_invite whose
\* push is still pending, and call_rejected went to the bound caller.
C13_Witness ==
    /\ last.h = "decline_call"
    /\ MapHas(userSocketMap, last.cid)
    /\ \E t \in tasks : /\ t.h = "send_call_invite" /\ t.cid = last.cid
                        /\ t.s = userSocketMap[last.cid]
    /\ ~MapHas(activeCalls, last.cid)
    /\ Len(out) = 1 /\ out[1].ev = "call_rejected"

\* C14: cancel_call(targetUserId) from user U removes U's invite, emits
\* call_ended to the target's live connection when the target is bound, and
\* starts the push typed 'cancel_call' to the target; when the cancel_call
\* follows a send_call_invite on the same connection, the tracker no longer
\* holds the invite that send_call_invite recorded.
C14_Step ==
    (last'.h = "cancel_call" /\ sent' # sent)
    => /\ ~MapHas(activeCalls', UserOf(last'.s))
       /\ out' = IF MapHas(userSocketMap, last'.tgt)
                 THEN <<Emit(userSocketMap[last'.tgt], "call_ended",
                             NoChannel, NoUser)>>
                 ELSE <<>>
       /\ last'.pc = "fcm_get" /\ last' \in tasks'
       /\ (last.h = "send_call_invite" /\ last.s = last'.s /\ sent = sent' - 1
           /\ last.pc = "fcm_get")
          => ~(MapHas(activeCalls', last.cid) /\ activeCalls'[last.cid] = last.tgt)

C14_CancelRemovesInvite == [][C14_Step]_vars

\* C15: an end_call from a user with an outstanding invite to T starts the
\* push typed 'cancel_call' to T and, when the push has been dealt with,
\* emits call_ended to T's live connection if T is bound and clears the
\* invite; an end_call from a user with no outstanding invite emits nothing,
\* starts no push and leaves the tracker unchanged.
C15_Step ==
    LET U == UserOf(last'.s) IN
    /\ (last'.h = "end_call" /\ sent' # sent /\ MapHas(activeCalls, U))
       => /\ last'.pc = "fcm_get" /\ last'.tgt = activeCalls[U]
          /\ last' \in tasks'
    /\ (last'.h = "end_call" /\ last'.pc = "fcm_send")
       => out' = <<Push(last'.tgt, "cancel_call")>>
    /\ \A t \in tasks \ tasks' :
          (/\ t.h = "end_call" /\ t.pc \in {"fcm_get", "fcm_send"}
           /\ last'.pc \in {"done", "calls_query"}
           /\ last' = [t EXCEPT !.pc = last'.pc])
          => /\ out' = IF MapHas(userSocketMap, t.tgt)
                       THEN <<Emit(userSocketMap[t.tgt], "call_ended",
                                   NoChannel, NoUser)>>
                       ELSE <<>>
             /\ ~MapHas(activeCalls', U)
    /\ (last'.h = "end_call" /\ sent' # sent /\ ~MapHas(activeCalls, U))
       => last'.tgt = NoUser
    /\ (last'.h = "end_call" /\ last'.tgt = NoUser)
       => /\ out' = <<>> /\ activeCalls' = activeCalls
          /\ last'.pc \notin {"fcm_get", "fcm_send"}

C15_EndCallTearsDownInvite == [][C15_Step]_vars

\* C15 witness: an end_call that read an invite has passed its push, the
\* call_ended went to the bound target and the invite is cleared.
C15_Witness ==
    /\ last.h = "end_call" /\ last.tgt # NoUser
    /\ last.pc \in {"done", "calls_query"}
    /\ MapHas(userSocketMap, last.tgt)
    /\ out = <<Emit(userSocketMap[last.tgt], "call_ended", NoChannel, NoUser)>>
    /\ ~MapHas(activeCalls, UserOf(last.s))

\* C16: when the disconnect handler of connection c of user U has completed,
\* the queue holds no entry with connectionId c, the tracker does not hold
\* the invite of U that the handler found when it began, and the registry
\* does not resolve U to c.
C16_DisconnectLeavesNothing ==
    LET U == UserOf(last.s) IN
    (last.h = "disconnect" /\ last.pc = "done")
    => /\ \A i \in DOMAIN waitingUsers : waitingUsers[i].id # last.s
       /\ last.tgt # NoUser
          => ~(MapHas(activeCalls, U) /\ activeCalls[U] = last.tgt)
       /\ ~(MapHas(userSocketMap, U) /\ userSocketMap[U] = last.s)

\* C17: a find_match from a connection without a userId, or from a user
\* whose profile does not exist, is dropped silently: no step of the handler
\* changes the queue or the ledger or emits an event, and the handler ends
\* by returning (at once when the connection has no userId).
C17_Step ==
    (/\ last'.h = "find_match"
     /\ \/ UserOf(last'.s) = NoUser
        \/ ~users[UserOf(last'.s)].exists)
    => /\ waitingUsers' = waitingUsers
       /\ calls' = calls
       /\ out' = <<>>
       /\ last'.pc \in {"users_get", "returned", "caught"}
       /\ UserOf(last'.s) = NoUser => (last'.pc = "returned" /\ tasks' = tasks)

C17_FindMatchDropped == [][C17_Step]_vars

\* C17 witness: the find_match of a user without a profile has returned
\* while another user is waiting in the queue.
C17_Witness ==
    /\ last.h = "find_match" /\ last.pc = "returned"
    /\ UserOf(last.s) # NoUser /\ ~users[UserOf(last.s)].exists
    /\ waitingUsers # <<>> /\ calls = <<>>

\* C18: when the ledger accepts the record of a match of requester A with
\* waiting entry B, exactly one call record is created, with participants
\* A and B and a null duration, and exactly two match_found events are
\* emitted with the channel id of the record, one to A's connection naming
\* B and one to B's connection naming A; no push is started.  A request of
\* an M user who prefers F, scanned while the queue holds only an F user who
\* accepts anyone, is a match and leaves the queue empty.
C18_Step ==
    LET A == last'.a
        B == last'.m
    IN
    /\ (last'.h = "find_match" /\ last'.pc = "done" /\ B # NoEntry)
       => /\ Len(calls') = Len(calls) + 1
          /\ SubSeq(calls', 1, Len(calls)) = calls
          /\ LET rec == calls'[Len(calls')] IN
                /\ {rec.participants[k] : k \in DOMAIN rec.participants}
                      = {A.userId, B.userId}
                /\ Len(rec.participants) = 2
                /\ rec.durationInSeconds = Null
                /\ rec.channelName = last'.ch
          /\ out' = << Emit(A.id, "match_found", last'.ch, B.userId),
                       Emit(B.id, "match_found", last'.ch, A.userId) >>
          /\ tasks' \subseteq tasks
    /\ (/\ Matched(last') \/ Unmatched(last')
        /\ A.gender = "M" /\ A.genderPreference = "F"
        /\ Len(waitingUsers) = 1
        /\ waitingUsers[1].gender = "F"
        /\ waitingUsers[1].genderPreference = "Anyone")
       => /\ Matched(last') /\ B = waitingUsers[1]
          /\ waitingUsers' = <<>>

C18_MatchRecordedAndAnnounced == [][C18_Step]_vars

\* C18 witness: the match of an M requester who prefers F with a waiting F
\* user who accepts anyone has been recorded and announced to both, and
\* the queue is empty.
C18_Witness ==
    /\ last.h = "find_match" /\ last.pc = "done" /\ last.m # NoEntry
    /\ last.a.userId # last.m.userId
    /\ last.a.gender = "M" /\ last.a.genderPreference = "F"
    /\ last.m.gender = "F" /\ last.m.genderPreference = "Anyone"
    /\ waitingUsers = <<>>
    /\ Len(calls) = 1 /\ Len(out) = 2

\* C19: the store mutations of one signal are atomic: while a handler is
\* between its first and its last mutation of the queue, the tracker and the
\* registry, no step of another handler is taken.  A disconnect that found an
\* invite has filtered the queue and has not yet cleared the invite and the
\* binding for as long as it is suspended.
C19_Step ==
    \A t \in tasks :
       t.h = "disconnect"
       => /\ last'.h = "disconnect" /\ last'.s = t.s /\ last'.n = t.n
          /\ sent' = sent

C19_MutationsAtomic == [][C19_Step]_vars

\* C20: a find_match sent right after a cancel_search on the same
\* connection, and finding no compatible peer, leaves exactly one entry of
\* that user in the queue: the entry of the new request (its connectionId,
\* gender and genderPreference), at the tail.
C20_Step ==
    (Unmatched(last') /\ last'.prev = "cancel_search")
    => /\ Cardinality(EntriesOf(waitingUsers', last'.a.userId)) = 1
       /\ waitingUsers' # <<>>
       /\ waitingUsers'[Len(waitingUsers')] = last'.a

C20_FreshEntryAfterCancel == [][C20_Step]_vars

\* the events of a teardown that tells target T, bound in registry reg or not
EndedTo(reg, T) ==
    IF MapHas(reg, T)
    THEN <<Emit(reg[T], "call_ended", NoChannel, NoUser)>>
    ELSE <<>>

\* C21: whatever the outcome of the push (the profile lookup or the send may
\* throw), the handler that awaited it goes on: an end_call with an
\* outstanding invite emits call_ended to the bound target and clears the
\* invite, a disconnect clears the invite and unbinds the user, and for a
\* send_call_invite the tracker is left as it is and nothing is emitted.
C21_Step ==
    /\ \A t \in tasks \ tasks' :
          (/\ t.pc \in {"fcm_get", "fcm_send"}
           /\ last'.h = t.h /\ last'.s = t.s /\ last'.n = t.n
           /\ last'.tgt = t.tgt /\ last'.pc # "fcm_send")
          => LET U == UserOf(t.s) IN
             /\ last'.pc \in {"done", "calls_query"}
             /\ t.h = "end_call"
                => /\ out' = EndedTo(userSocketMap, t.tgt)
                   /\ ~MapHas(activeCalls', U)
             /\ t.h = "disconnect"
                => /\ ~MapHas(activeCalls', U)
                   /\ ~MapHas(userSocketMap', U)
             /\ t.h = "send_call_invite"
                => /\ activeCalls' = activeCalls
                   /\ out' = <<>>
    /\ last'.pc = "caught"
       => \A t \in tasks \ tasks' : t.pc \notin {"fcm_get", "fcm_send"}

C21_PushFailureDoesNotAbort == [][C21_Step]_vars

\* C21 witness: the disconnect of a caller whose target has a push token has
\* ended without a push being sent in its last step (the lookup threw, or
\* the send returned or threw); the invite is cleared and the user unbound.
C21_Witness ==
    /\ last.h = "disconnect" /\ last.pc = "done" /\ last.tgt # NoUser
    /\ users[last.tgt].exists /\ users[last.tgt].fcmToken
    /\ out = <<>>
    /\ ~MapHas(activeCalls, UserOf(last.s))
    /\ ~MapHas(userSocketMap, UserOf(last.s))

\* C22: a signal that targets an entity already removed is a no-op on the
\* stores and no error: a decline_call for a callerId without a tracked
\* invite, a cancel_call or an end_call without duration from a user without
\* a tracked invite, and a cancel_search from a connection without a queue
\* entry each leave the queue, the tracker and the registry unchanged, in
\* the step that receives them and in every later step of their handler.
C22_Step ==
    LET U == UserOf(last'.s)
        same == /\ waitingUsers' = waitingUsers
                /\ activeCalls' = activeCalls
                /\ userSocketMap' = userSocketMap
    IN
    /\ (last'.h = "decline_call" /\ ~MapHas(activeCalls, last'.cid))
       => (same /\ last'.pc = "done")
    /\ (last'.h = "cancel_call" /\ sent' # sent /\ ~MapHas(activeCalls, U))
       => (same /\ last'.pc = "fcm_get")
    /\ (last'.h = "cancel_call" /\ sent' = sent)
       => (same /\ last'.pc \in {"fcm_send", "done"})
    /\ (last'.h = "end_call" /\ last'.dur = Null /\ sent' # sent
        /\ ~MapHas(activeCalls, U))
       => (same /\ last'.pc = "done" /\ tasks' = tasks)
    /\ (last'.h = "cancel_search"
        /\ \A i \in DOMAIN waitingUsers : waitingUsers[i].id # last'.s)
       => (same /\ last'.pc = "done")

C22_RemovedTargetsAreNoOps == [][C22_Step]_vars

\* C22 witness: a cancel_search from a connection without a queue entry has
\* been handled while the entry of another connection of the same user is
\* waiting in the queue.
C22_Witness ==
    /\ last.h = "cancel_search" /\ last.pc = "done"
    /\ \E i \in DOMAIN waitingUsers :
          /\ waitingUsers[i].userId = UserOf(last.s)
          /\ waitingUsers[i].id # last.s

\* C23: a caller has one tracked invite at most.  A send_call_invite of a
\* caller whose invite to another target T1 is outstanding leaves the
\* tracker resolving the caller to the new target T2 only, and no step of
\* that handler emits a call_ended or pushes a cancellation.  An end_call or
\* disconnect of the caller received later reads the invite to T2 and
\* addresses its call_ended and its push to T2 alone; a cancel_call removes
\* the caller's invite and addresses the target it names.
C23_Step ==
    LET U == UserOf(last'.s)
        sent_ == {out'[i] : i \in DOMAIN out'}
    IN
    /\ (last'.h = "send_call_invite" /\ sent' # sent)
       => Recorded(activeCalls, activeCalls', last'.cid, last'.tgt)
    /\ last'.h = "send_call_invite"
       => \A e \in sent_ :
             /\ e.ev # "call_ended"
             /\ e.ev = "fcm" => (e.type = "call" /\ e.user = last'.tgt)
             /\ e.ev = "incoming_call" => e.to = userSocketMap[last'.tgt]
    /\ (last'.h \in {"end_call", "disconnect"} /\ sent' # sent
        /\ MapHas(activeCalls, U))
       => last'.tgt = activeCalls[U]
    /\ (last'.h = "cancel_call" /\ sent' # sent)
       => Removed(activeCalls, activeCalls', U)
    /\ last'.h \in {"end_call", "disconnect", "cancel_call"}
       => \A e \in sent_ :
             /\ e.ev = "call_ended"
                => (MapHas(userSocketMap, last'.tgt)
                    /\ e.to = userSocketMap[last'.tgt])
             /\ e.ev = "fcm" => e.user = last'.tgt
             /\ e.ev \in {"call_ended", "fcm"}

C23_OneInvitePerCaller == [][C23_Step]_vars

\* C23 witness: an end_call of a caller has read the invite to T2 while the
\* pushes of the caller's invites to T1 and to T2 are both still pending.
C23_Witness ==
    /\ last.h = "end_call" /\ last.pc = "fcm_get"
    /\ activeCalls[UserOf(last.s)] = last.tgt
    /\ \E i1, i2 \in tasks :
          /\ i1.h = "send_call_invite" /\ i1.cid = UserOf(last.s)
          /\ i2.h = "send_call_invite" /\ i2.cid = UserOf(last.s)
          /\ i1.tgt # last.tgt /\ i2.tgt = last.tgt

\* C24: the registry binds a userId to one connectionId at most (it is a
\* map keyed by userId, and only real userIds are keys); accepting a
\* connection that carries userId U makes the registry resolve U to that
\* connection whatever U was bound to before and leaves the other bindings
\* alone, and accepting a connection without a userId changes no binding.
C24_Step ==
    LET U == UserOf(last'.s) IN
    /\ (last'.h = "connection" /\ U # NoUser)
       => Recorded(userSocketMap, userSocketMap', U, last'.s)
    /\ (last'.h = "connection" /\ U = NoUser)
       => userSocketMap' = userSocketMap
    /\ \A u \in DOMAIN userSocketMap' :
          u # NoUser /\ UserOf(userSocketMap'[u]) = u

C24_NewestConnectionBound == [][C24_Step]_vars

\* C24 witness: a second connection of a user has been accepted while the
\* first is still open, and the registry resolves the user to the second.
C24_Witness ==
    /\ last.h = "connection" /\ UserOf(last.s) # NoUser
    /\ last.s[2] = 2 /\ <<UserOf(last.s), 1>> \in open
    /\ userSocketMap[UserOf(last.s)] = last.s

\* the handlers that may be suspended
Handlers == {"find_match", "send_call_invite", "end_call", "disconnect"}
\* some handler of kind h is suspended
Suspended(h) == \E t \in tasks : t.h = h
\* a disconnect of a connection of user u is suspended
Disconnecting(u) == \E t \in tasks : t.h = "disconnect" /\ UserOf(t.s) = u

C26_NoEntryOfClosedConnection ==
    \A i \in DOMAIN waitingUsers : waitingUsers[i].id \in open

\* C27: a match never pairs a user with themselves: a match_found sent to a
\* connection of user U names a remote user other than U, and the two
\* participants of a call record differ.
C27_NoSelfMatch ==
    /\ \A i \in DOMAIN out :
          out[i].ev = "match_found" => out[i].user # UserOf(out[i].to)
    /\ \A i \in DOMAIN calls :
          calls[i].participants[1] # calls[i].participants[2]

\* the step resumes the suspended handler t from its push to the end of the
\* push
EndsPushOf(t) ==
    /\ t \in tasks \ tasks'
    /\ t.pc \in {"fcm_get", "fcm_send"}
    /\ last'.h = t.h /\ last'.s = t.s /\ last'.n = t.n /\ last'.tgt = t.tgt
    /\ last'.pc # "fcm_send"

\* C28: a teardown clears only the invite it observed: when an end_call or
\* disconnect of caller U that read the invite U -> T1 resumes from its push
\* and the tracker holds a newer invite U -> T2, that invite stays tracked.
C28_Step ==
    \A t \in tasks :
       LET U == UserOf(t.s) IN
       (/\ t.h \in {"end_call", "disconnect"} /\ EndsPushOf(t)
        /\ MapHas(activeCalls, U) /\ activeCalls[U] # t.tgt)
       => (MapHas(activeCalls', U) /\ activeCalls'[U] = activeCalls[U])

C28_TeardownClearsObservedInvite == [][C28_Step]_vars

\* the signals received so far that are not connections
Received == sent - (nconn["u1"] + nconn["u2"] + nconn["u3"] + nconn[NoUser])

\* C29: for a recorded invite caller -> T at most one call_ended is emitted
\* to T's live connection.  Stated for the behaviours in which the caller
\* sent one send_call_invite, then end_call, then disconnected while the
\* end_call was suspended on the push: the disconnect has just emitted
\* call_ended to T's connection, so the end_call that resumes next emits
\* none.
C29_Step ==
    ~ /\ Received = 3
      /\ last.h = "disconnect" /\ last.pc = "fcm_get"
      /\ last.tgt # UserOf(last.s)
      /\ out = EndedTo(userSocketMap, last.tgt) /\ out # <<>>
      /\ \E t \in tasks : /\ t.h = "end_call" /\ t.s = last.s /\ t.tgt = last.tgt
                          /\ EndsPushOf(t)
      /\ out' = out

C29_OneCallEndedPerInvite == [][C29_Step]_vars

\* the invite keyed by V is the same in the trackers m and m2
SameInvite(m, m2, V) ==
    /\ MapHas(m2, V) <=> MapHas(m, V)
    /\ MapHas(m, V) => m2[V] = m[V]

\* C30: a signal sent on a connection of user U never creates, overwrites or
\* removes the invite keyed by another caller V, except a decline_call of
\* V's invite sent by its current target: send_call_invite touches the key
\* of the sending connection's userId only, and a decline_call(V) from a
\* user who is not the target of V's invite leaves it in place.
C30_Step ==
    LET U == UserOf(last'.s) IN
    \A V \in UserIds :
       (V # U /\ ~SameInvite(activeCalls, activeCalls', V))
       => /\ last'.h = "decline_call" /\ last'.cid = V
          /\ MapHas(activeCalls, V) /\ activeCalls[V] = U

C30_InvitesOfOthersUntouched == [][C30_Step]_vars

\* C31: distinct matches get distinct channel identifiers: the channelName
\* of any two call records differ, and so do the channelName of the
\* match_found events of a match and of every record made before it.
C31_DistinctChannels ==
    /\ \A i, j \in DOMAIN calls :
          i # j => calls[i].channelName # calls[j].channelName
    /\ \A k \in DOMAIN out, i \in 1..(Len(calls) - 1) :
          out[k].ev = "match_found" => out[k].channelName # calls[i].channelName

\* C32: in every reachable state no two waiting entries of distinct users
\* are reciprocally compatible with each other.
C32_NoCompatiblePairWaits ==
    \A i, j \in DOMAIN waitingUsers :
        waitingUsers[i].userId # waitingUsers[j].userId
        => ~Reciprocal(waitingUsers[i], waitingUsers[j])

\* C32 witness: a requester has just been appended behind the entry of
\* another user that it would accept but that does not accept it.
C32_Witness ==
    /\ Unmatched(last)
    /\ waitingUsers # <<>>
    /\ waitingUsers[Len(waitingUsers)] = last.a
    /\ \E i \in DOMAIN waitingUsers :
          /\ waitingUsers[i].userId # last.a.userId
          /\ last.a.genderPreference \in {"Anyone", waitingUsers[i].gender}
          /\ waitingUsers[i].genderPreference \notin {"Anyone", last.a.gender}

\* C33: when find_match finds no reciprocal match and an entry of the
\* requester's userId already waits, the whole queue is unchanged: the
\* existing entry keeps its position, connection, gender and preference.
C33_ExistingEntryKept ==
    [][ (Unmatched(last') /\ EntriesOf(waitingUsers, last'.a.userId) # {})
        => waitingUsers' = waitingUsers ]_vars

\* C33 witness: the request ended without a match while the user's entry in
\* the queue is of another connection and carries another preference.
C33_Witness ==
    /\ Unmatched(last)
    /\ \E i \in DOMAIN waitingUsers :
          /\ waitingUsers[i].userId = last.a.userId
          /\ waitingUsers[i].id # last.a.id
          /\ waitingUsers[i].genderPreference # last.a.genderPreference

\* C34: queue removals are exact and order-preserving: a match removes
\* exactly the matched entry (the queue is one shorter and the requester is
\* not appended), cancel_search or disconnect of connection c removes
\* exactly the entries of connection c, at most one, and the remaining
\* entries keep their order and contents.
C34_Step ==
    /\ Matched(last')
       => \E i \in DOMAIN waitingUsers :
             /\ waitingUsers[i] = last'.m
             /\ waitingUsers' = [j \in 1..(Len(waitingUsers) - 1) |->
                                   waitingUsers[IF j < i THEN j ELSE j + 1]]
    /\ (sent' # sent /\ last'.h \in {"cancel_search", "disconnect"})
       => /\ Cardinality({i \in DOMAIN waitingUsers :
                             waitingUsers[i].id = last'.s}) <= 1
          /\ waitingUsers' = SelectSeq(waitingUsers, LAMBDA e : e.id # last'.s)
C35_Step ==
    /\ last'.h \in {"find_match", "cancel_search"}
       => (activeCalls' = activeCalls /\ userSocketMap' = userSocketMap)
    /\ last'.h \in {"send_call_invite", "decline_call", "cancel_call", "end_call"}
       => (waitingUsers' = waitingUsers /\ userSocketMap' = userSocketMap)
    /\ activeCalls' # activeCalls
       => last'.h \in {"send_call_invite", "decline_call", "cancel_call",
                       "end_call", "disconnect"}
C35_OwnStoresOnly == [][C35_Step]_vars

\* C35 witness: a find_match has just enqueued a bound requester whose own
\* invite is tracked.
C35_Witness ==
    /\ Unmatched(last)
    /\ EntriesOf(waitingUsers, last.a.userId) # {}
    /\ MapHas(activeCalls, last.a.userId)
    /\ MapHas(userSocketMap, last.a.userId)

\* C36: an invite stays in the tracker until the first terminal signal from
\* its caller and is cleared by it.  Cleared: when a cancel_call of the
\* caller or a decline_call naming the caller is received, and when an
\* end_call or disconnect of the caller ends its push, the tracker holds no
\* entry of that caller.  Stays: a step takes the invite V -> T out of the
\* tracker or replaces it only if it is the receipt of a cancel_call or of a
\* new send_call_invite of V, the receipt of a decline_call naming V, or the
\* end of an end_call or disconnect of V that was received while V -> T
\* was tracked; a disconnect of T alone is none of these.
C36_Step ==
    /\ (sent' # sent /\ last'.h = "cancel_call")
       => ~MapHas(activeCalls', UserOf(last'.s))
    /\ (sent' # sent /\ last'.h = "decline_call")
       => ~MapHas(activeCalls', last'.cid)
    /\ \A t \in tasks :
          (t.h \in {"end_call", "disconnect"} /\ EndsPushOf(t))
          => ~MapHas(activeCalls', UserOf(t.s))
    /\ \A V \in UserIds :
          (MapHas(activeCalls, V) /\ ~SameInvite(activeCalls, activeCalls', V))
          => \/ /\ sent' # sent
                /\ last'.h \in {"cancel_call", "send_call_invite"}
                /\ UserOf(last'.s) = V
             \/ sent' # sent /\ last'.h = "decline_call" /\ last'.cid = V
             \/ \E t \in tasks :
                   /\ t.h \in {"end_call", "disconnect"} /\ EndsPushOf(t)
                   /\ UserOf(t.s) = V /\ t.tgt = activeCalls[V]
C36_InviteStaysUntilTerminal == [][C36_Step]_vars

\* the queue positions whose entry's own preference admits gender g
Admitting(q, g) == {i \in DOMAIN q : q[i].genderPreference \in {"Anyone", g}}

\* C37: a find_match without a genderPreference, be it without payload or
\* with a payload that lacks the field, is treated as preference "Anyone":
\* when the entry of another user admits the requester's gender, the
\* requester is matched, with the oldest waiting entry whose own preference
\* admits its gender.
C37_Step ==
    LET A == last'.a
        adm == Admitting(waitingUsers, A.gender)
    IN  (/\ Matched(last') \/ Unmatched(last')
         /\ A.genderPreference \notin {"M", "F"}
         /\ \E i \in adm : waitingUsers[i].userId # A.userId)
        => /\ Matched(last')
           /\ last'.m = waitingUsers[CHOOSE i \in adm : \A j \in adm : i <= j]
C37_MissingPreferenceIsAnyone == [][C37_Step]_vars

====
